---- MODULE Spec2Model ----
(***************************************************************************)
(* Model of the citation-fetch adapter of citation_app.py: the input       *)
(* classifier is_doi_or_identifier, the two fetchers fetch_citation        *)
(* (Citoid, "PathA") and fetch_zotero_citation (Zotero translator server,  *)
(* "PathB"), and the fetch button of main() that drives them.              *)
(*                                                                         *)
(* A Python string is a sequence of pieces whose concatenation is the      *)
(* string.  Inputs and base URLs are sequences of single characters, so    *)
(* that strip, startswith, rstrip and the DOI pattern work on characters;  *)
(* an f-string is the sequence of its literal parts and interpolations.    *)
(* An HTTP body is one piece.                                              *)
(***************************************************************************)
EXTENDS Naturals, Sequences, FiniteSets, TLC

VARIABLES
    secrets,          \* st.secrets: the secret store of the deployment
    env,              \* os.environ after load_dotenv()
    comparison_mode,  \* the comparison checkbox
    url_input,        \* the text input
    format_type,      \* the format selectbox
    pc,               \* where the script run of main() stands
    outbound,         \* the requests.get / requests.post calls issued in this run
    citoid_outcome,   \* what the transport answered to the PathA request
    citoid_result,    \* what fetch_citation returned
    zotero_config,    \* api_url, api_key as resolved by fetch_zotero_citation
    zotero_outcome,   \* what the transport answered to the PathB request
    zotero_result,    \* what fetch_zotero_citation returned
    text,             \* the argument of a direct call of is_doi_or_identifier
    classification    \* what it returned

vars == <<secrets, env, comparison_mode, url_input, format_type, pc, outbound,
          citoid_outcome, citoid_result, zotero_config, zotero_outcome,
          zotero_result, text, classification>>

appVars == <<secrets, env, comparison_mode, url_input, format_type, pc, outbound,
             citoid_outcome, citoid_result, zotero_config, zotero_outcome,
             zotero_result>>

----------------------------------------------------------------------------
(* Bounds *)

\* longest run of whitespace put before and after an input
MaxPad == 1
\* most trailing slashes on a configured base URL
MaxSlash == 2

----------------------------------------------------------------------------
(* Python values *)

None == [set |-> FALSE]
Some(v) == [set |-> TRUE, value |-> v]

\* Python truthiness of an optional string: None and "" are falsy
Truthy(o) == o.set /\ o.value # <<>>

\* str.strip() and the regex class \s
Whitespace == {" ", "\t", "\n", "\r", "\f"}

Digits == {"0", "1", "2", "3", "4", "5", "6", "7", "8", "9"}

RECURSIVE LStrip(_)
LStrip(s) == IF s # <<>> /\ Head(s) \in Whitespace THEN LStrip(Tail(s)) ELSE s

RECURSIVE RStripWs(_)
RStripWs(s) ==
    IF s # <<>> /\ s[Len(s)] \in Whitespace
    THEN RStripWs(SubSeq(s, 1, Len(s) - 1))
    ELSE s

\* str.strip()
Strip(s) == RStripWs(LStrip(s))

\* str.startswith(prefix)
StartsWith(s, prefix) ==
    /\ Len(s) >= Len(prefix)
    /\ SubSeq(s, 1, Len(prefix)) = prefix

\* str.rstrip('/'): every trailing slash goes
RECURSIVE RStripSlash(_)
RStripSlash(s) ==
    IF s # <<>> /\ s[Len(s)] = "/"
    THEN RStripSlash(SubSeq(s, 1, Len(s) - 1))
    ELSE s

----------------------------------------------------------------------------
(* is_doi_or_identifier *)

HttpPrefix == <<"h", "t", "t", "p", ":", "/", "/">>
HttpsPrefix == <<"h", "t", "t", "p", "s", ":", "/", "/">>

\* startswith(('http://', 'https://'))
StartsWithHttp(s) == StartsWith(s, HttpPrefix) \/ StartsWith(s, HttpsPrefix)

\* number of consecutive digits of s from index i on
RECURSIVE DigitRun(_, _)
DigitRun(s, i) ==
    IF i <= Len(s) /\ s[i] \in Digits THEN 1 + DigitRun(s, i + 1) ELSE 0

\* re.match(r'^10\.\d{4,}/[^\s]+$', s): "10.", four or more digits, a slash,
\* one or more non-space characters, then the end (or a final newline)
doi_pattern(s) ==
    /\ Len(s) >= 3
    /\ s[1] = "1" /\ s[2] = "0" /\ s[3] = "."
    /\ LET n == DigitRun(s, 4)
       IN  /\ n >= 4
           /\ Len(s) >= 4 + n
           /\ s[4 + n] = "/"
           /\ LET rest == SubSeq(s, 5 + n, Len(s))
                  suffix == IF rest # <<>> /\ rest[Len(rest)] = "\n"
                            THEN SubSeq(rest, 1, Len(rest) - 1)
                            ELSE rest
              IN  /\ suffix # <<>>
                  /\ \A k \in 1..Len(suffix) : suffix[k] \notin Whitespace

\* a classifier that forgets to trim before looking for the scheme
is_doi_or_identifier_untrimmed(t) ==
    IF StartsWithHttp(t) THEN FALSE
    ELSE IF doi_pattern(Strip(t)) THEN TRUE
    ELSE ~StartsWithHttp(t)

is_doi_or_identifier(t) ==
    IF StartsWithHttp(Strip(t)) THEN FALSE
    ELSE IF doi_pattern(Strip(t)) THEN TRUE
    ELSE ~StartsWithHttp(Strip(t))

----------------------------------------------------------------------------
(* The transport: what requests.get / requests.post can answer *)

\* requests' exception classes with their base classes, as `except` sees them
Bases(cls) ==
    CASE cls = "ConnectionError" ->
            {"ConnectionError", "RequestException", "Exception"}
      [] cls = "ConnectTimeout" ->
            {"ConnectTimeout", "ConnectionError", "Timeout",
             "RequestException", "Exception"}
      [] cls = "ReadTimeout" ->
            {"ReadTimeout", "Timeout", "RequestException", "Exception"}
      [] cls = "HTTPError" ->
            {"HTTPError", "RequestException", "Exception"}
      [] cls = "TooManyRedirects" ->
            {"TooManyRedirects", "RequestException", "Exception"}
      [] cls = "JSONDecodeError" ->
            {"JSONDecodeError", "InvalidJSONError", "RequestException",
             "ValueError", "Exception"}
      [] cls = "TOMLDecodeError" ->
            {"TOMLDecodeError", "ValueError", "Exception"}
      [] cls = "AttributeError" ->
            {"AttributeError", "Exception"}
      [] cls = "KeyError" ->
            {"KeyError", "LookupError", "Exception"}
      [] cls = "FileNotFoundError" ->
            {"FileNotFoundError", "OSError", "Exception"}

Exc(cls, response, message) ==
    [class |-> cls, response |-> response, message |-> message]

\* bodies an upstream sends
JsonBody == "[{\"title\": \"T\"}]"
TextBody == "@misc{x, title={T}}"
Bodies == {JsonBody, TextBody}

\* final status codes an upstream sends (redirects are followed by requests)
Statuses == {200, 304, 404, 500}

\* Response.reason
Reason(status) ==
    CASE status = 200 -> "OK"
      [] status = 304 -> "Not Modified"
      [] status = 404 -> "Not Found"
      [] status = 500 -> "Internal Server Error"

Responses ==
    {[status_code |-> st, reason |-> Reason(st), text |-> b] :
        st \in Statuses, b \in Bodies}

\* exceptions requests.get / requests.post raise instead of returning
TransportFaults ==
    { Exc("ConnectionError", None, "Failed to establish a new connection"),
      Exc("ConnectTimeout", None, "Connection to host timed out"),
      Exc("ReadTimeout", None, "Read timed out. (read timeout=10)"),
      Exc("TooManyRedirects", None, "Exceeded 30 redirects."),
      Exc("HTTPError", None, "HTTP error") }

Outcomes ==
    {[kind |-> "raised", exception |-> e] : e \in TransportFaults}
    \cup {[kind |-> "response", response |-> r] : r \in Responses}

\* Response.raise_for_status(): raises for 4xx and 5xx only
RaisesForStatus(response) ==
    400 <= response.status_code /\ response.status_code < 600

\* Response.json()
JsonParses(body) == body = JsonBody
JsonValue(body) == << [title |-> "T"] >>

Returned(v) == [raised |-> FALSE, value |-> v]
Raised(e) == [raised |-> TRUE, exception |-> e]
NotCalled == [called |-> FALSE]

\* the clauses without the one for timeouts
HandlersNoTimeout == <<"ConnectionError", "HTTPError", "Exception">>

\* the `except` clauses of both fetchers, in source order
Handlers == <<"ConnectionError", "Timeout", "HTTPError", "Exception">>

\* the first clause that catches an exception of class cls
ExceptClauseOf(order, cls) ==
    LET first == CHOOSE i \in 1..Len(order) :
                     /\ order[i] \in Bases(cls)
                     /\ \A j \in 1..(i - 1) : order[j] \notin Bases(cls)
    IN  order[first]

ExceptClause(cls) == ExceptClauseOf(Handlers, cls)

ConnectionErrorMessage ==
    <<"Connection error. Please check your internet connection.">>
TimeoutMessage == <<"Request timed out. Please try again.">>
HttpErrorPrefix == "HTTP error: "
UnexpectedPrefix == "An unexpected error occurred: "
ConfigurationMessage ==
    <<"Zotero API credentials not configured. Please set credentials in .streamlit/secrets.toml (Cloud) or .env file (local).">>

Failure(message) == [success |-> FALSE, error |-> message]

\* e.response.<attribute> with e.response None
NoneAttribute ==
    Exc("AttributeError", None, "'NoneType' object has no attribute 'status_code'")

\* what raise_for_status raises: an HTTPError carrying the response
StatusError(response) ==
    Exc("HTTPError", Some(response),
        ToString(response.status_code) \o " Error: " \o response.reason)

\* timeout=10 of both requests
RequestTimeout == 10

----------------------------------------------------------------------------
(* fetch_citation (PathA) *)

Formats == {"zotero", "mediawiki", "mediawiki-basefields", "bibtex"}

\* characters urllib.parse.quote never escapes
AlwaysSafe ==
    Digits \cup {"a", "b", "e", "h", "p", "s", "t", "x", "_", ".", "-", "~"}

\* the escape of one character outside AlwaysSafe
PercentEncode(c) ==
    CASE c = ":" -> "%3A"
      [] c = "/" -> "%2F"
      [] c = " " -> "%20"
      [] c = "\t" -> "%09"
      [] c = "\n" -> "%0A"
      [] c = "\r" -> "%0D"
      [] c = "\f" -> "%0C"

\* quote(url, safe="")
quote(url) ==
    [i \in 1..Len(url) |->
        IF url[i] \in AlwaysSafe THEN url[i] ELSE PercentEncode(url[i])]

CitoidApiUrl(url, fmt) ==
    <<"https://en.wikipedia.org/api/rest_v1/data/citation/", fmt, "/">>
        \o quote(url)

\* the requests.get call of fetch_citation
CitoidRequest(url, fmt) ==
    [method |-> "GET",
     url |-> CitoidApiUrl(url, fmt),
     headers |-> ("User-Agent" :>
                    "Streamlit-Citation-Fetcher/1.0 (Educational Project)"),
     timeout |-> RequestTimeout]

\* a try block that parses every body as JSON, bibtex included
CitoidTryAlwaysJson(url, fmt, outcome) ==
    IF outcome.kind = "raised" THEN Raised(outcome.exception)
    ELSE IF RaisesForStatus(outcome.response)
    THEN Raised(StatusError(outcome.response))
    ELSE IF ~JsonParses(outcome.response.text)
    THEN Raised(Exc("JSONDecodeError", None,
                    "Expecting value: line 1 column 1 (char 0)"))
    ELSE Returned([success |-> TRUE,
                   data |-> JsonValue(outcome.response.text),
                   is_json |-> TRUE,
                   format_type |-> fmt,
                   api_url |-> CitoidApiUrl(url, fmt)])

\* the try block of fetch_citation, from the answer of requests.get on
CitoidTry(url, fmt, outcome) ==
    IF outcome.kind = "raised" THEN Raised(outcome.exception)
    ELSE IF RaisesForStatus(outcome.response)
    THEN Raised(StatusError(outcome.response))
    ELSE IF fmt = "bibtex"
    THEN Returned([success |-> TRUE,
                   data |-> outcome.response.text,
                   is_json |-> FALSE,
                   format_type |-> fmt,
                   api_url |-> CitoidApiUrl(url, fmt)])
    ELSE IF ~JsonParses(outcome.response.text)
    THEN Raised(Exc("JSONDecodeError", None,
                    "Expecting value: line 1 column 1 (char 0)"))
    ELSE Returned([success |-> TRUE,
                   data |-> JsonValue(outcome.response.text),
                   is_json |-> TRUE,
                   format_type |-> fmt,
                   api_url |-> CitoidApiUrl(url, fmt)])

\* the except clauses of fetch_citation
CitoidExcept(e) ==
    LET clause == ExceptClause(e.class)
    IN  CASE clause = "ConnectionError" ->
                Returned(Failure(ConnectionErrorMessage))
          [] clause = "Timeout" ->
                Returned(Failure(TimeoutMessage))
          [] clause = "HTTPError" ->
                IF ~e.response.set
                THEN Raised(NoneAttribute)
                ELSE Returned(Failure(
                        <<HttpErrorPrefix,
                          ToString(e.response.value.status_code),
                          " - ",
                          e.response.value.reason>>))
          [] clause = "Exception" ->
                Returned(Failure(<<UnexpectedPrefix, e.message>>))

\* fetch_citation(url, format_type), given what the transport answers
fetch_citation(url, fmt, outcome) ==
    LET body == CitoidTry(url, fmt, outcome)
    IN  IF body.raised THEN CitoidExcept(body.exception) ELSE body

----------------------------------------------------------------------------
(* fetch_zotero_citation (PathB) *)

\* st.secrets[section][key]: no secrets.toml raises FileNotFoundError, a file
\* that cannot be read as TOML raises its decode error, a missing section or
\* key raises KeyError
SecretsGet(store, section, key) ==
    CASE store.status = "missing" ->
            Raised(Exc("FileNotFoundError", None, "No secrets files found."))
      [] store.status = "unparsable" ->
            Raised(Exc("TOMLDecodeError", None, "Invalid statement (at line 1)"))
      [] store.status = "loaded" ->
            IF section \notin DOMAIN store.toml
            THEN Raised(Exc("KeyError", None, section))
            ELSE IF key \notin DOMAIN store.toml[section]
            THEN Raised(Exc("KeyError", None, key))
            ELSE Returned(store.toml[section][key])

\* os.getenv(name)
Getenv(environ, name) ==
    IF name \in DOMAIN environ THEN Some(environ[name]) ELSE None

\* a resolution that falls back to the environment one value at a time
ResolveConfigPerValue(store, environ) ==
    LET u == SecretsGet(store, "zotero", "api_url")
        k == SecretsGet(store, "zotero", "api_key")
    IN  Returned([api_url |-> IF u.raised THEN Getenv(environ, "ZOTERO_API_URL")
                              ELSE Some(u.value),
                  api_key |-> IF k.raised THEN Getenv(environ, "ZOTERO_API_KEY")
                              ELSE Some(k.value)])

\* the inner try/except of fetch_zotero_citation: both values from the secret
\* store, or on KeyError / FileNotFoundError both from the environment
ResolveConfig(store, environ) ==
    LET u == SecretsGet(store, "zotero", "api_url")
        k == SecretsGet(store, "zotero", "api_key")
        e == IF u.raised THEN u.exception ELSE k.exception
    IN  IF ~u.raised /\ ~k.raised
        THEN Returned([api_url |-> Some(u.value), api_key |-> Some(k.value)])
        ELSE IF Bases(e.class) \cap {"KeyError", "FileNotFoundError"} # {}
        THEN Returned([api_url |-> Getenv(environ, "ZOTERO_API_URL"),
                       api_key |-> Getenv(environ, "ZOTERO_API_KEY")])
        ELSE Raised(e)

\* a check for None only, which lets empty values through
ConfigMissingNoneOnly(config) == ~config.api_url.set \/ ~config.api_key.set

\* `not api_url or not api_key`
ConfigMissing(config) == ~Truthy(config.api_url) \/ ~Truthy(config.api_key)

\* the endpoint tag chosen for an input
EndpointType(input_text) ==
    IF is_doi_or_identifier(input_text) THEN "search" ELSE "web"

\* an endpoint that keeps the trailing slashes of the base URL
ZoteroEndpointUnstripped(api_url, input_text) ==
    api_url \o <<"/" \o EndpointType(input_text)>>

\* f"{api_url.rstrip('/')}/search" or f"{api_url.rstrip('/')}/web"
ZoteroEndpoint(api_url, input_text) ==
    RStripSlash(api_url) \o <<"/" \o EndpointType(input_text)>>

\* the requests.post call of fetch_zotero_citation
ZoteroRequest(config, input_text) ==
    [method |-> "POST",
     url |-> ZoteroEndpoint(config.api_url.value, input_text),
     headers |-> ("x-api-key" :> config.api_key.value
                    @@ "Content-Type" :> "text/plain"),
     data |-> input_text,
     timeout |-> RequestTimeout]

\* the except clauses of fetch_zotero_citation
ZoteroExcept(e) ==
    LET clause == ExceptClause(e.class)
        error_detail == IF e.response.set THEN e.response.value.text
                        ELSE e.message
    IN  CASE clause = "ConnectionError" ->
                Returned(Failure(ConnectionErrorMessage))
          [] clause = "Timeout" ->
                Returned(Failure(TimeoutMessage))
          [] clause = "HTTPError" ->
                IF ~e.response.set
                THEN Raised(NoneAttribute)
                ELSE Returned(Failure(
                        <<HttpErrorPrefix,
                          ToString(e.response.value.status_code),
                          " - ",
                          error_detail>>))
          [] clause = "Exception" ->
                Returned(Failure(<<UnexpectedPrefix, e.message>>))

\* fetch_zotero_citation up to the request: [sends |-> TRUE] with the request
\* to issue, or [sends |-> FALSE] with what the call returns at once
ZoteroBegin(store, environ, input_text) ==
    LET resolved == ResolveConfig(store, environ)
    IN  IF resolved.raised
        THEN [sends |-> FALSE, config |-> resolved,
              result |-> ZoteroExcept(resolved.exception)]
        ELSE IF ConfigMissing(resolved.value)
        THEN [sends |-> FALSE, config |-> resolved,
              result |-> Returned(Failure(ConfigurationMessage))]
        ELSE [sends |-> TRUE, config |-> resolved,
              request |-> ZoteroRequest(resolved.value, input_text)]

\* the rest of the try block, from the answer of requests.post on
ZoteroTry(request, input_text, outcome) ==
    IF outcome.kind = "raised" THEN Raised(outcome.exception)
    ELSE IF RaisesForStatus(outcome.response)
    THEN Raised(StatusError(outcome.response))
    ELSE IF ~JsonParses(outcome.response.text)
    THEN Raised(Exc("JSONDecodeError", None,
                    "Expecting value: line 1 column 1 (char 0)"))
    ELSE Returned([success |-> TRUE,
                   data |-> JsonValue(outcome.response.text),
                   endpoint_type |-> EndpointType(input_text),
                   api_url |-> request.url])

\* fetch_zotero_citation(input_text) once its request is answered
fetch_zotero_citation(request, input_text, outcome) ==
    LET body == ZoteroTry(request, input_text, outcome)
    IN  IF body.raised THEN ZoteroExcept(body.exception) ELSE body

----------------------------------------------------------------------------
(* Configurations and inputs *)

RECURSIVE Slashes(_)
Slashes(n) == IF n = 0 THEN <<>> ELSE <<"/">> \o Slashes(n - 1)

SecretBase == <<"h", "t", "t", "p", "s", ":", "/", "/", "s">>
EnvBase == <<"h", "t", "t", "p", ":", "/", "/", "e">>
SecretKey == <<"key-of-secrets">>
EnvKey == <<"key-of-env">>
Empty == <<>>

\* every function from a subset of keys to values
Partial(keys, values) == UNION {[d -> values] : d \in SUBSET keys}

SecretSections ==
    {s \in Partial({"api_url", "api_key"},
                   {Empty, SecretBase \o <<"/">>, SecretKey}) :
        /\ "api_url" \in DOMAIN s => s["api_url"] # SecretKey
        /\ "api_key" \in DOMAIN s => s["api_key"] \in {Empty, SecretKey}}

SecretStores ==
    {[status |-> "missing"], [status |-> "unparsable"]}
    \cup {[status |-> "loaded", toml |-> t] :
            t \in {<<>>} \cup {("zotero" :> s) : s \in SecretSections}}

EnvUrls == {Empty} \cup {EnvBase \o Slashes(n) : n \in 0..MaxSlash}

Environments ==
    {e \in Partial({"ZOTERO_API_URL", "ZOTERO_API_KEY"},
                   EnvUrls \cup {EnvKey}) :
        /\ "ZOTERO_API_URL" \in DOMAIN e => e["ZOTERO_API_URL"] \in EnvUrls
        /\ "ZOTERO_API_KEY" \in DOMAIN e => e["ZOTERO_API_KEY"] \in {Empty, EnvKey}}

UrlText == HttpsPrefix \o <<"a">>
DoiText == <<"1", "0", ".", "1", "0", "3", "8", "/", "x">>

\* what the text input holds when the button is pressed
Inputs == {Empty, UrlText, <<" ">> \o UrlText, DoiText, <<"a", " ", "b">>}

----------------------------------------------------------------------------
(* main(): one script run per press of the fetch button *)

Init ==
    /\ secrets \in SecretStores
    /\ env \in Environments
    /\ comparison_mode = FALSE
    /\ url_input = Empty
    /\ format_type = "zotero"
    /\ pc = "idle"
    /\ outbound = <<>>
    /\ citoid_outcome = NotCalled
    /\ citoid_result = NotCalled
    /\ zotero_config = NotCalled
    /\ zotero_outcome = NotCalled
    /\ zotero_result = NotCalled
    /\ text = Empty
    /\ classification = NotCalled

\* st.button("Fetch Citation") pressed with the widgets as given: a warning on
\* an empty input, else fetch_citation runs up to its requests.get
Fetch(input, fmt, comparison) ==
    /\ pc = "idle"
    /\ url_input' = input
    /\ format_type' = fmt
    /\ comparison_mode' = comparison
    /\ citoid_outcome' = NotCalled
    /\ citoid_result' = NotCalled
    /\ zotero_config' = NotCalled
    /\ zotero_outcome' = NotCalled
    /\ zotero_result' = NotCalled
    /\ IF input = Empty
       THEN /\ pc' = "rendered"
            /\ outbound' = <<>>
       ELSE /\ pc' = "citoid_sent"
            /\ outbound' = <<CitoidRequest(input, fmt)>>
    /\ UNCHANGED <<secrets, env, text, classification>>

\* a fetch_citation that sends its request again after a connection failure
CitoidAnswersRetrying(outcome) ==
    /\ pc = "citoid_sent"
    /\ IF outcome.kind = "raised" /\ outcome.exception.class = "ConnectionError"
          /\ Len(outbound) < 3
       THEN /\ outbound' = Append(outbound, outbound[1])
            /\ UNCHANGED <<pc, citoid_outcome, citoid_result>>
       ELSE LET result == fetch_citation(url_input, format_type, outcome)
            IN  /\ citoid_outcome' = outcome
                /\ citoid_result' = result
                /\ outbound' = outbound
                /\ pc' = IF result.raised THEN "raised"
                         ELSE IF comparison_mode THEN "citoid_rendered"
                         ELSE "rendered"
    /\ UNCHANGED <<secrets, env, comparison_mode, url_input, format_type,
                   zotero_config, zotero_outcome, zotero_result,
                   text, classification>>

\* requests.get answers: fetch_citation returns (or raises), and its result is
\* rendered
CitoidAnswers(outcome) ==
    /\ pc = "citoid_sent"
    /\ LET result == fetch_citation(url_input, format_type, outcome)
       IN  /\ citoid_outcome' = outcome
           /\ citoid_result' = result
           /\ pc' = IF result.raised THEN "raised"
                    ELSE IF comparison_mode THEN "citoid_rendered"
                    ELSE "rendered"
    /\ UNCHANGED <<secrets, env, comparison_mode, url_input, format_type,
                   outbound, zotero_config, zotero_outcome, zotero_result,
                   text, classification>>

\* comparison mode: fetch_zotero_citation runs up to its requests.post, or
\* returns before it
ZoteroCall ==
    /\ pc = "citoid_rendered"
    /\ LET begin == ZoteroBegin(secrets, env, url_input)
       IN  /\ zotero_config' = begin.config
           /\ IF begin.sends
              THEN /\ outbound' = Append(outbound, begin.request)
                   /\ zotero_result' = zotero_result
                   /\ pc' = "zotero_sent"
              ELSE /\ outbound' = outbound
                   /\ zotero_result' = begin.result
                   /\ pc' = IF begin.result.raised THEN "raised" ELSE "rendered"
    /\ UNCHANGED <<secrets, env, comparison_mode, url_input, format_type,
                   citoid_outcome, citoid_result, zotero_outcome,
                   text, classification>>

\* requests.post answers: fetch_zotero_citation returns (or raises)
ZoteroAnswers(outcome) ==
    /\ pc = "zotero_sent"
    /\ LET result == fetch_zotero_citation(outbound[Len(outbound)],
                                           url_input, outcome)
       IN  /\ zotero_outcome' = outcome
           /\ zotero_result' = result
           /\ pc' = IF result.raised THEN "raised" ELSE "rendered"
    /\ UNCHANGED <<secrets, env, comparison_mode, url_input, format_type,
                   outbound, citoid_outcome, citoid_result, zotero_config,
                   text, classification>>

\* the script run is over (its output rendered, or its exception shown): the
\* page waits for the next press, and nothing of the run is kept
Rerun ==
    /\ pc \in {"rendered", "raised"}
    /\ pc' = "idle"
    /\ comparison_mode' = FALSE
    /\ url_input' = Empty
    /\ format_type' = "zotero"
    /\ outbound' = <<>>
    /\ citoid_outcome' = NotCalled
    /\ citoid_result' = NotCalled
    /\ zotero_config' = NotCalled
    /\ zotero_outcome' = NotCalled
    /\ zotero_result' = NotCalled
    /\ UNCHANGED <<secrets, env, text, classification>>

Next ==
    \/ \E input \in Inputs, fmt \in Formats, comparison \in BOOLEAN :
           Fetch(input, fmt, comparison)
    \/ \E outcome \in Outcomes : CitoidAnswers(outcome)
    \/ ZoteroCall
    \/ \E outcome \in Outcomes : ZoteroAnswers(outcome)
    \/ Rerun

Spec == Init /\ [][Next]_vars

----------------------------------------------------------------------------
(* is_doi_or_identifier called on its own *)

PadChars == {" ", "\n"}

\* the runs of at most n whitespace characters
RECURSIVE Pads(_)
Pads(n) ==
    IF n = 0 THEN {<<>>}
    ELSE Pads(n - 1) \cup {Append(p, w) : p \in Pads(n - 1), w \in PadChars}

Cores ==
    { Empty,
      HttpPrefix \o <<"a">>,
      HttpsPrefix \o <<"a">>,
      <<"h", "t", "t", "p", ":", "/", "a">>,
      <<"h", "t", "t", "p", "s">>,
      <<"x">> \o HttpPrefix,
      DoiText,
      <<"1", "0", ".", "1", "0", "3", "/", "x">>,
      <<"1", "0", ".", "1", "0", "3", "8", "/", "x", " ", "x">>,
      <<"1", "0", ".", "1", "0", "3", "8", "/">>,
      <<"a", " ", "b">> }

Texts == {l \o c \o r : l \in Pads(MaxPad), c \in Cores, r \in Pads(MaxPad)}

InitClassify ==
    /\ secrets = [status |-> "missing"]
    /\ env = <<>>
    /\ comparison_mode = FALSE
    /\ url_input = Empty
    /\ format_type = "zotero"
    /\ pc = "idle"
    /\ outbound = <<>>
    /\ citoid_outcome = NotCalled
    /\ citoid_result = NotCalled
    /\ zotero_config = NotCalled
    /\ zotero_outcome = NotCalled
    /\ zotero_result = NotCalled
    /\ text \in Texts
    /\ classification = NotCalled

Classify ==
    /\ classification = NotCalled
    /\ classification' = Returned(is_doi_or_identifier(text))
    /\ UNCHANGED <<appVars, text>>

NextClassify == Classify

SpecClassify == InitClassify /\ [][NextClassify]_vars

----------------------------------------------------------------------------
(* Vocabulary of the properties *)

\* t, after a run of leading whitespace, reads http:// or https://
TrimmedStartsWithScheme(t) ==
    \E k \in 0..Len(t) :
        /\ \A i \in 1..k : t[i] \in Whitespace
        /\ \/ /\ Len(t) >= k + 7
              /\ SubSeq(t, k + 1, k + 7) = <<"h", "t", "t", "p", ":", "/", "/">>
           \/ /\ Len(t) >= k + 8
              /\ SubSeq(t, k + 1, k + 8) = <<"h", "t", "t", "p", "s", ":", "/", "/">>

IsFailure(result) ==
    /\ ~result.raised
    /\ DOMAIN result.value = {"success", "error"}
    /\ result.value.success = FALSE

IsSuccess(result) ==
    /\ ~result.raised
    /\ result.value.success = TRUE

\* the error kind of a failed envelope, read off its message
ErrorKind(result) ==
    LET error == result.value.error
    IN  CASE error = <<"Connection error. Please check your internet connection.">> ->
                "CONNECTIVITY"
          [] error = <<"Request timed out. Please try again.">> -> "TIMEOUT"
          [] error[1] = "HTTP error: " -> "HTTP_STATUS"
          [] error[1] = "An unexpected error occurred: " -> "UNKNOWN"
          [] OTHER -> "CONFIGURATION_MISSING"

Requests(method) == {i \in 1..Len(outbound) : outbound[i].method = method}

\* the calls of this run with what the transport answered and what they returned
Calls ==
    {c \in {[outcome |-> citoid_outcome, result |-> citoid_result, path |-> "A"],
            [outcome |-> zotero_outcome, result |-> zotero_result, path |-> "B"]} :
        c.outcome # NotCalled}

OutcomeClass(outcome) ==
    IF outcome.kind = "raised" THEN outcome.exception.class ELSE "none"

OutcomeStatus(outcome) ==
    IF outcome.kind = "response" THEN outcome.response.status_code ELSE 0

----------------------------------------------------------------------------
(* C1: a PathB call whose resolved base URL or API key is missing or empty
   returns the configuration-missing failure, and no POST has been issued
   when it returns. *)
C1_MissingConfigurationNoRequest ==
    (zotero_config # NotCalled /\ ~zotero_config.raised) =>
        LET c == zotero_config.value
            missing == \/ ~c.api_url.set
                       \/ c.api_url.value = <<>>
                       \/ ~c.api_key.set
                       \/ c.api_key.value = <<>>
        IN  missing =>
                /\ zotero_result =
                     Returned([success |-> FALSE, error |-> ConfigurationMessage])
                /\ Requests("POST") = {}
                /\ zotero_outcome = NotCalled
                /\ pc = "rendered"

\* the secret store holds a base URL and an empty key, the environment holds
\* both values, and the call has returned the configuration failure
C1_Witness ==
    /\ pc = "rendered"
    /\ zotero_config # NotCalled
    /\ ~zotero_config.raised
    /\ zotero_config.value.api_url.set
    /\ zotero_config.value.api_url.value # <<>>
    /\ zotero_config.value.api_key = Some(<<>>)
    /\ Getenv(env, "ZOTERO_API_KEY") = Some(EnvKey)
    /\ zotero_result # NotCalled
    /\ IsFailure(zotero_result)
    /\ Requests("POST") = {}

(* C2: on either path a connection failure, a read timeout and a 404 or 500
   answer give the connectivity, the timeout and the HTTP-status failure, in
   this order; the three kinds differ; and none of these faults, a connect
   timeout included, gives the generic unexpected-error failure. *)
C2_FaultKinds ==
    \A c \in Calls :
        /\ OutcomeClass(c.outcome) = "ConnectionError" =>
               IsFailure(c.result) /\ ErrorKind(c.result) = "CONNECTIVITY"
        /\ OutcomeClass(c.outcome) = "ReadTimeout" =>
               IsFailure(c.result) /\ ErrorKind(c.result) = "TIMEOUT"
        /\ OutcomeStatus(c.outcome) \in {404, 500} =>
               /\ IsFailure(c.result)
               /\ ErrorKind(c.result) = "HTTP_STATUS"
               /\ c.result.value.error[2] = ToString(OutcomeStatus(c.outcome))
        /\ (\/ OutcomeClass(c.outcome) \in
                  {"ConnectionError", "ReadTimeout", "ConnectTimeout"}
            \/ OutcomeStatus(c.outcome) \in {404, 500}) =>
               IsFailure(c.result) /\ ErrorKind(c.result) # "UNKNOWN"

\* PathA answered 404 and PathB timed out while reading, in one run
C2_Witness ==
    /\ citoid_outcome # NotCalled
    /\ OutcomeStatus(citoid_outcome) = 404
    /\ ErrorKind(citoid_result) = "HTTP_STATUS"
    /\ zotero_outcome # NotCalled
    /\ OutcomeClass(zotero_outcome) = "ReadTimeout"
    /\ ErrorKind(zotero_result) = "TIMEOUT"

(* C3: every fault that is a timeout, in the connect phase or in the read
   phase, gives the timeout failure "Request timed out", not the connectivity
   failure. *)
C3_TimeoutsGiveTimeoutKind ==
    \A c \in Calls :
        (c.outcome.kind = "raised"
            /\ "Timeout" \in Bases(c.outcome.exception.class)) =>
                IsFailure(c.result) /\ ErrorKind(c.result) = "TIMEOUT"

(* C4: an answer whose final status is outside [200,300) gives the
   HTTP-status failure carrying the status code, and a success envelope is
   returned only for a status in [200,300). *)
C4_StatusOutside2xxFails ==
    \A c \in Calls :
        c.outcome.kind = "response" =>
            LET status == c.outcome.response.status_code
            IN  /\ (status < 200 \/ status >= 300) =>
                       /\ IsFailure(c.result)
                       /\ ErrorKind(c.result) = "HTTP_STATUS"
                       /\ c.result.value.error[2] = ToString(status)
                /\ IsSuccess(c.result) => (200 <= status /\ status < 300)

(* C5: every call of fetch_citation and of fetch_zotero_citation returns an
   envelope and never raises: success with data and api_url, or failure with
   an error string. *)
C5_CallsReturnEnvelopes ==
    /\ pc # "raised"
    /\ \A result \in {citoid_result, zotero_result} :
           result # NotCalled =>
               /\ ~result.raised
               /\ \/ /\ result.value.success = TRUE
                     /\ {"data", "api_url"} \subseteq DOMAIN result.value
                  \/ /\ result.value.success = FALSE
                     /\ "error" \in DOMAIN result.value

(* C6: no fault is retried.  A call of fetch_citation has issued exactly one
   GET and a call of fetch_zotero_citation at most one POST, none only when
   the configuration could not be resolved or is missing; a press of the
   button issues at most one GET, and at most one POST after it in comparison
   mode only, whatever the transport answers. *)
C6_NoRetry ==
    /\ Cardinality(Requests("GET")) <= 1
    /\ Cardinality(Requests("POST")) <= 1
    /\ Len(outbound) = Cardinality(Requests("GET")) + Cardinality(Requests("POST"))
    /\ ~comparison_mode => Requests("POST") = {}
    /\ Requests("POST") # {} => Requests("GET") = {1} /\ Requests("POST") = {2}
    /\ (pc = "citoid_sent" \/ citoid_result # NotCalled) =>
           Cardinality(Requests("GET")) = 1
    /\ zotero_result # NotCalled =>
           IF zotero_outcome # NotCalled
           THEN Cardinality(Requests("POST")) = 1
           ELSE /\ Requests("POST") = {}
                /\ IsFailure(zotero_result)
                /\ ErrorKind(zotero_result) \in {"CONFIGURATION_MISSING", "UNKNOWN"}
                /\ ErrorKind(zotero_result) = "UNKNOWN" => zotero_config.raised

\* a comparison run in which both requests met a connection failure and
\* both calls have returned
C6_Witness ==
    /\ pc = "rendered"
    /\ comparison_mode
    /\ citoid_outcome # NotCalled
    /\ OutcomeClass(citoid_outcome) = "ConnectionError"
    /\ zotero_outcome # NotCalled
    /\ OutcomeClass(zotero_outcome) = "ConnectionError"
    /\ Len(outbound) = 2

(* C7: is_doi_or_identifier returns False exactly for the inputs that, with
   leading and trailing whitespace removed, start with http:// or https://,
   and True for every other input: every DOI-shaped one, the empty and the
   whitespace-only ones included. *)
C7_UrlIffScheme ==
    classification # NotCalled =>
        /\ ~classification.raised
        /\ classification.value \in BOOLEAN
        /\ classification.value = FALSE <=> TrimmedStartsWithScheme(text)
        /\ (\E l \in Pads(MaxPad), r \in Pads(MaxPad) :
                text \in {l \o DoiText \o r, l \o r}) =>
               classification.value = TRUE

\* a URL behind leading whitespace has been classified as a URL
C7_Witness ==
    /\ classification = Returned(FALSE)
    /\ text # <<>>
    /\ text[1] \in Whitespace

(* C8: a PathB request goes to the base URL without its trailing slashes
   followed by /search for an identifier and by /web for a URL, its body is
   the input as passed in, and a success envelope names that endpoint. *)
C8_EndpointAndBody ==
    Requests("POST") # {} =>
        LET request == outbound[2]
            base == zotero_config.value.api_url.value
            prefix == SubSeq(request.url, 1, Len(request.url) - 1)
            suffix == request.url[Len(request.url)]
            tag == IF TrimmedStartsWithScheme(url_input) THEN "web" ELSE "search"
        IN  /\ suffix = "/" \o tag
            /\ prefix # <<>>
            /\ prefix[Len(prefix)] # "/"
            /\ \E n \in 0..Len(base) : base = prefix \o Slashes(n)
            /\ request.data = url_input
            /\ (zotero_result # NotCalled /\ IsSuccess(zotero_result)) =>
                   /\ zotero_result.value.endpoint_type = tag
                   /\ zotero_result.value.api_url = request.url

\* a URL behind a leading space was posted to /web of a base URL configured
\* with trailing slashes, and the call succeeded
C8_Witness ==
    /\ zotero_result # NotCalled
    /\ IsSuccess(zotero_result)
    /\ zotero_result.value.endpoint_type = "web"
    /\ url_input[1] = " "
    /\ LET base == zotero_config.value.api_url.value
       IN  base[Len(base)] = "/"

(* C9: a success envelope of fetch_citation has is_json false and the
   unparsed body as data for bibtex, and is_json true and the parsed body as
   data for the other formats; a 2xx body that is not JSON gives a failure
   for a non-bibtex format. *)
C9_IsJsonByFormat ==
    citoid_result # NotCalled =>
        /\ IsSuccess(citoid_result) =>
               /\ citoid_outcome.kind = "response"
               /\ citoid_result.value.format_type = format_type
               /\ IF format_type = "bibtex"
                  THEN /\ citoid_result.value.is_json = FALSE
                       /\ citoid_result.value.data = citoid_outcome.response.text
                  ELSE /\ citoid_result.value.is_json = TRUE
                       /\ citoid_outcome.response.text = "[{\"title\": \"T\"}]"
                       /\ citoid_result.value.data = << [title |-> "T"] >>
        /\ (/\ citoid_outcome.kind = "response"
            /\ citoid_outcome.response.status_code \in 200..299
            /\ format_type # "bibtex"
            /\ citoid_outcome.response.text # "[{\"title\": \"T\"}]") =>
               IsFailure(citoid_result)

\* bibtex was asked for and a body that happens to be JSON came back
C9_Witness ==
    /\ citoid_result # NotCalled
    /\ IsSuccess(citoid_result)
    /\ format_type = "bibtex"
    /\ citoid_outcome.response.text = "[{\"title\": \"T\"}]"
    /\ citoid_result.value.is_json = FALSE

(* C10: the secret store takes precedence: when it holds both
   zotero.api_url and zotero.api_key, both values of the call are its values
   whatever the environment holds; when it is absent or lacks either key,
   both values are those of ZOTERO_API_URL and ZOTERO_API_KEY; the two
   values never come from different sources. *)
C10_SecretsTakePrecedence ==
    (zotero_config # NotCalled /\ ~zotero_config.raised) =>
        LET c == zotero_config.value
            holdsBoth ==
                /\ secrets.status = "loaded"
                /\ "zotero" \in DOMAIN secrets.toml
                /\ {"api_url", "api_key"} \subseteq DOMAIN secrets.toml["zotero"]
            fromEnv(name) ==
                IF name \in DOMAIN env
                THEN [set |-> TRUE, value |-> env[name]]
                ELSE [set |-> FALSE]
        IN  /\ secrets.status \in {"loaded", "missing"}
            /\ holdsBoth =>
                   /\ c.api_url = [set |-> TRUE, value |-> secrets.toml["zotero"]["api_url"]]
                   /\ c.api_key = [set |-> TRUE, value |-> secrets.toml["zotero"]["api_key"]]
            /\ ~holdsBoth =>
                   /\ c.api_url = fromEnv("ZOTERO_API_URL")
                   /\ c.api_key = fromEnv("ZOTERO_API_KEY")
            /\ Requests("POST") # {} =>
                   outbound[2].headers["x-api-key"] = c.api_key.value

\* the secret store holds a base URL but no key, the environment holds both:
\* the request carries the key of the environment
C10_Witness ==
    /\ Requests("POST") # {}
    /\ secrets.status = "loaded"
    /\ "zotero" \in DOMAIN secrets.toml
    /\ DOMAIN secrets.toml["zotero"] = {"api_url"}
    /\ secrets.toml["zotero"]["api_url"] # <<>>
    /\ outbound[2].headers["x-api-key"] = EnvKey
    /\ zotero_config.value.api_url = Some(env["ZOTERO_API_URL"])

====
